---- MODULE Spec2Model ----
(***************************************************************************)
(* A model of src/server.js: the schema bootstrap initializeDatabase, the   *)
(* four route handlers and the two tables they read and write through      *)
(* dbClient.  The file holds the program twice; the model follows the      *)
(* cinema_ratings server of lines 166-330 (lines 1-165 are the same code   *)
(* under the names films and movie_reviews).                               *)
(*                                                                         *)
(* Every handler is an async function.  It runs synchronously up to its    *)
(* one `await dbClient.execute(...)`, the storage engine then performs or  *)
(* rejects the statement, and the handler resumes and answers.  These are  *)
(* the three steps of a request here: Begin (the route action), Execute /  *)
(* ExecuteFail, and Respond.  Handlers of different requests interleave at *)
(* the await.                                                              *)
(***************************************************************************)
EXTENDS Integers, Sequences, FiniteSets, Bags

\* ------------------------------------------------------------------ bounds
\* Requests the server is sent in one run of the model; UUIDGenerator.random()
\* hands out the identifiers 1..MaxRequests, in any order.
MaxRequests == 3
\* The wall clock (new Date()) runs over 0..MaxTime milliseconds.
MaxTime == 1

Uuids == 1..MaxRequests
\* The :movie_id path parameter clients send: an identifier that a movie may
\* or may not have been registered under (UUIDGenerator.random() can return it).
MovieIdParams == {1}

\* --------------------------------------------------------- JavaScript values
\* A JSON integer is kept as sign and decimal digits: ratings beyond 32 bits
\* are part of the input space.
Undefined == [kind |-> "undefined", str |-> "", neg |-> FALSE, digits |-> <<>>]
Null == [kind |-> "null", str |-> "", neg |-> FALSE, digits |-> <<>>]
NaN == [kind |-> "NaN", str |-> "", neg |-> FALSE, digits |-> <<>>]
Str(s) == [kind |-> "string", str |-> s, neg |-> FALSE, digits |-> <<>>]
Num(n, d) == [kind |-> "number", str |-> "", neg |-> n, digits |-> d]

\* `!v` of lines 254 and 294.
Falsy(v) ==
    \/ v.kind \in {"undefined", "null", "NaN"}
    \/ (v.kind = "string" /\ v.str = "")
    \/ (v.kind = "number" /\ v.digits = <<0>>)

DigitChar == <<"0", "1", "2", "3", "4", "5", "6", "7", "8", "9">>
DigitChars(d) == [i \in 1..Len(d) |-> DigitChar[d[i] + 1]]
IsDigitChar(c) == \E k \in 1..10 : DigitChar[k] = c
DigitOf(c) == (CHOOSE k \in 1..10 : DigitChar[k] = c) - 1

RECURSIVE StripTrailingZeros(_)
StripTrailingZeros(d) ==
    IF d # <<>> /\ d[Len(d)] = 0 THEN StripTrailingZeros(SubSeq(d, 1, Len(d) - 1)) ELSE d

RECURSIVE StripLeadingZeros(_)
StripLeadingZeros(d) ==
    IF Len(d) > 1 /\ d[1] = 0 THEN StripLeadingZeros(Tail(d)) ELSE d

RECURSIVE NatDigits(_)
NatDigits(n) == IF n < 10 THEN <<n>> ELSE Append(NatDigits(n \div 10), n % 10)

\* ToString(rating), the first step of parseInt (line 300): an integer of at most 21
\* digits prints in full, a larger one in exponent form ("1e+21").
JSToString(v) ==
    CASE v.kind = "undefined" -> <<"u", "n", "d", "e", "f", "i", "n", "e", "d">>
      [] v.kind = "null" -> <<"n", "u", "l", "l">>
      [] v.kind = "NaN" -> <<"N", "a", "N">>
      [] v.kind = "number" ->
            LET sign == IF v.neg THEN <<"-">> ELSE <<>>
                frac == StripTrailingZeros(Tail(v.digits))
            IN  IF Len(v.digits) <= 21
                THEN sign \o DigitChars(v.digits)
                ELSE sign \o <<DigitChar[v.digits[1] + 1]>>
                     \o (IF frac = <<>> THEN <<>> ELSE <<".">> \o DigitChars(frac))
                     \o <<"e", "+">> \o DigitChars(NatDigits(Len(v.digits) - 1))

RECURSIVE DigitPrefix(_)
DigitPrefix(cs) ==
    IF cs # <<>> /\ IsDigitChar(cs[1]) THEN <<DigitOf(cs[1])>> \o DigitPrefix(Tail(cs)) ELSE <<>>

\* parseInt(rating, 10), line 300: an optional sign, then the longest run of
\* decimal digits; NaN when there is none.
parseInt(v) ==
    LET cs == JSToString(v)
        neg == cs # <<>> /\ cs[1] = "-"
        body == IF cs # <<>> /\ cs[1] \in {"-", "+"} THEN Tail(cs) ELSE cs
        z == DigitPrefix(body)
        d == StripLeadingZeros(z)
    IN  IF z = <<>> THEN NaN ELSE Num(neg /\ d # <<0>>, d)

\* a <= b for two digit strings without leading zeros.
DigitsLE(a, b) ==
    \/ Len(a) < Len(b)
    \/ /\ Len(a) = Len(b)
       /\ \/ a = b
          \/ \E i \in 1..Len(a) : a[i] < b[i] /\ \A j \in 1..(i - 1) : a[j] = b[j]

\* The column `rating int` (line 218) is a 32-bit signed integer.
Int32MaxDigits == <<2, 1, 4, 7, 4, 8, 3, 6, 4, 7>>
Int32MinDigits == <<2, 1, 4, 7, 4, 8, 3, 6, 4, 8>>
InInt32(v) ==
    /\ v.kind = "number"
    /\ DigitsLE(v.digits, IF v.neg THEN Int32MinDigits ELSE Int32MaxDigits)

\* What binding the parameter ratingValue to the int column does inside
\* dbClient.execute (line 304): "" when it encodes, else the error thrown.
EncodeIntError(v) ==
    IF v.kind # "number" THEN "TypeError"
    ELSE IF ~InInt32(v) THEN "RangeError"
    ELSE ""

\* ------------------------------------------------------------ storage engine
DATABASE_KEYSPACE == "cinema_ratings"
MoviesTable == "movies"
ReviewsTable == "reviews_by_movie"

\* CREATE KEYSPACE / CREATE TABLE ... IF NOT EXISTS (lines 195-221): creates
\* what is missing and accepts what is there.
\* (CreatePlain: the statement without IF NOT EXISTS.)
CreatePlain(exists) ==
    [err |-> IF exists THEN "AlreadyExists" ELSE "", created |-> ~exists]
CreateIfNotExists(exists) == [err |-> "", created |-> ~exists]

\* PRIMARY KEY (movie_id, timestamp, review_id), line 219.
\* (PrimaryKeyNoReviewId: PRIMARY KEY (movie_id, timestamp).)
PrimaryKeyNoReviewId(r) == <<r.movie_id, r.timestamp, 0>>
PrimaryKey(r) == <<r.movie_id, r.timestamp, r.review_id>>

\* The clustering order of a partition, lines 219-220: timestamp descending,
\* then review_id in its default ascending order.
\* (PrecedesNewestWins: timestamp alone, the row written last going last.)
PrecedesNewestWins(a, b) == a.timestamp >= b.timestamp
Precedes(a, b) ==
    \/ a.timestamp > b.timestamp
    \/ (a.timestamp = b.timestamp /\ a.review_id < b.review_id)

\* INSERT INTO reviews_by_movie (line 302) on one partition: a row with the
\* same primary key is overwritten, any other row is placed by the clustering
\* order.
InsertReview(part, row) ==
    IF \E k \in 1..Len(part) : PrimaryKey(part[k]) = PrimaryKey(row)
    THEN [k \in 1..Len(part) |->
            IF PrimaryKey(part[k]) = PrimaryKey(row) THEN row ELSE part[k]]
    ELSE LET before == Cardinality({k \in 1..Len(part) : Precedes(part[k], row)})
         IN  SubSeq(part, 1, before) \o <<row>> \o SubSeq(part, before + 1, Len(part))

\* INSERT INTO movies (line 259): id is the whole primary key (line 206).
\* (InsertMovieKeyedByTitle: title as the primary key.)
InsertMovieKeyedByTitle(rows, row) == {r \in rows : r.title # row.title} \cup {row}
InsertMovie(rows, row) == {r \in rows : r.id # row.id} \cup {row}

\* SELECT movie_id, reviewer, rating, timestamp ... WHERE movie_id = ?
\* (line 276): the partition in its stored order, without review_id.
SelectReviews(part) ==
    [k \in 1..Len(part) |->
        [movie_id |-> part[k].movie_id, reviewer |-> part[k].reviewer,
         rating |-> part[k].rating, timestamp |-> part[k].timestamp]]

\* Failures of the engine itself, as dbClient.connect and dbClient.execute
\* reject with them.
EngineErrors == {"NoHostAvailableError", "OperationTimedOutError"}
ExecuteErrors == {"OperationTimedOutError"}

\* ------------------------------------------------------------------- state
VARIABLES
    proc,             \* where the process is: initializeDatabase's steps, listening, exited
    exitCode,         \* the status of process.exit, -1 while the process runs
    initError,        \* the error initializeDatabase caught, "" if none
    clientKeyspace,   \* dbClient.keyspace
    keyspaceExists,   \* the keyspace cinema_ratings exists in the engine
    tables,           \* the tables that exist in it
    movies,           \* rows of movies
    reviews_by_movie, \* rows of reviews_by_movie: per movie_id, in stored order
    now,              \* the wall clock new Date() reads
    issued,           \* identifiers UUIDGenerator.random() has returned (it repeats none)
    inflight,         \* the bag of requests whose handler has started and not answered
    accepted,         \* per movie_id, the inserts the engine has acknowledged
    served            \* the requests received so far

vars == <<proc, exitCode, initError, clientKeyspace, keyspaceExists, tables, movies,
          reviews_by_movie, now, issued, inflight, accepted, served>>
db == <<keyspaceExists, tables, movies, reviews_by_movie>>

\* A request: its route and inputs, what its handler has computed, and where
\* the handler is ("awaiting" dbClient.execute, "resumed" after it settled,
\* "rejected" by validation).  seen records accepted[movie_id] as the engine
\* ran the statement: how many inserts a scan came after, or which insert of
\* the partition this one was.
NoRequest ==
    [op |-> "none", pc |-> "idle", movie_id |-> 0, text |-> Undefined,
     rating |-> Undefined, timestamp |-> 0, id |-> 0, ratingValue |-> Undefined,
     ops |-> 0, err |-> "", rows |-> <<>>, movies |-> {}, seen |-> 0]
Requests == BagToSet(inflight)

\* A handler runs without interruption from its start to its await or its
\* return: while validation is rejecting a request, nothing else moves.
Rejecting == \E s \in Requests : s.pc = "rejected"

\* The request bodies clients send.
Titles == {Undefined, Str(""), Str("Arrival")}
Reviewers == {Undefined, Str(""), Str("alice")}
Ratings == {Undefined, Num(TRUE, <<5>>)}
\* Integer ratings up to and beyond the 32-bit range and the 21 digits that
\* print in full, and null.
WideRatings ==
    {Null,
     Num(TRUE, <<5>>), Num(FALSE, <<0>>), Num(FALSE, Int32MaxDigits),
     Num(TRUE, Int32MinDigits), Num(FALSE, Int32MinDigits),
     Num(FALSE, <<1>> \o [k \in 1..21 |-> 0])}

Init ==
    /\ proc = "connect"
    /\ exitCode = -1
    /\ initError = ""
    /\ clientKeyspace = ""
    /\ keyspaceExists = FALSE
    /\ tables = {}
    /\ movies = {}
    /\ reviews_by_movie = [m \in MovieIdParams |-> <<>>]
    /\ now = 0
    /\ issued = {}
    /\ inflight = EmptyBag
    /\ accepted = [m \in MovieIdParams |-> 0]
    /\ served = 0

\* ------------------------------------------------------ initializeDatabase
\* The catch block of lines 225-228: process.exit(1).
\* (OnInitErrorContinue: the error is logged and the function returns.)
OnInitErrorContinue(p) == "listening"
OnInitError(p) == "exited"

InitFailed(e) ==
    /\ proc' = OnInitError(proc)
    /\ exitCode' = IF proc' = "exited" THEN 1 ELSE exitCode
    /\ initError' = e

\* await dbClient.connect(), line 191.
Connect ==
    /\ proc = "connect"
    /\ \/ /\ proc' = "keyspace"
          /\ UNCHANGED <<exitCode, initError>>
       \/ \E e \in EngineErrors : InitFailed(e)
    /\ UNCHANGED <<clientKeyspace, db, now, issued, inflight, accepted, served>>

\* What a statement of initializeDatabase can be rejected with: a failure of
\* the engine, or the error the statement itself raises.
InitErrors(r) == EngineErrors \cup ({r.err} \ {""})

\* CREATE KEYSPACE IF NOT EXISTS and dbClient.keyspace = ..., lines 195-201.
CreateKeyspace ==
    /\ proc = "keyspace"
    /\ LET r == CreateIfNotExists(keyspaceExists)
       IN  \/ /\ r.err = ""
              /\ keyspaceExists' = TRUE
              /\ clientKeyspace' = DATABASE_KEYSPACE
              /\ proc' = "movies"
              /\ UNCHANGED <<exitCode, initError>>
           \/ /\ \E e \in InitErrors(r) : InitFailed(e)
              /\ UNCHANGED <<keyspaceExists, clientKeyspace>>
    /\ UNCHANGED <<tables, movies, reviews_by_movie, now, issued, inflight, accepted, served, served>>

\* CREATE TABLE IF NOT EXISTS movies, lines 204-209.
CreateMoviesTable ==
    /\ proc = "movies"
    /\ LET r == CreateIfNotExists(MoviesTable \in tables)
       IN  \/ /\ r.err = ""
              /\ tables' = tables \cup {MoviesTable}
              /\ movies' = IF r.created THEN {} ELSE movies
              /\ proc' = "reviews"
              /\ UNCHANGED <<exitCode, initError>>
           \/ /\ \E e \in InitErrors(r) : InitFailed(e)
              /\ UNCHANGED <<tables, movies>>
    /\ UNCHANGED <<clientKeyspace, keyspaceExists, reviews_by_movie, now, issued, inflight,
                   accepted, served>>

\* CREATE TABLE IF NOT EXISTS reviews_by_movie, lines 212-221; the function
\* then returns (line 223).
CreateReviewsTable ==
    /\ proc = "reviews"
    /\ LET r == CreateIfNotExists(ReviewsTable \in tables)
       IN  \/ /\ r.err = ""
              /\ tables' = tables \cup {ReviewsTable}
              /\ reviews_by_movie' =
                    IF r.created THEN [m \in MovieIdParams |-> <<>>] ELSE reviews_by_movie
              /\ proc' = "ready"
              /\ UNCHANGED <<exitCode, initError>>
           \/ /\ \E e \in InitErrors(r) : InitFailed(e)
              /\ UNCHANGED <<tables, reviews_by_movie>>
    /\ UNCHANGED <<clientKeyspace, keyspaceExists, movies, now, issued, inflight, accepted, served>>

\* initializeDatabase().then(() => server.listen(...)), lines 324-327.
Listen ==
    /\ proc = "ready"
    /\ proc' = "listening"
    /\ UNCHANGED <<exitCode, initError, clientKeyspace, db, now, issued, inflight, accepted, served>>

\* The process is started again (line 324 runs once per process start): the
\* engine keeps its keyspace, tables and rows, the process state is new.
Restart ==
    /\ proc \in {"listening", "exited"}
    /\ ~Rejecting
    /\ proc' = "connect"
    /\ exitCode' = -1
    /\ initError' = ""
    /\ clientKeyspace' = ""
    /\ inflight' = EmptyBag
    /\ UNCHANGED <<db, now, issued, accepted, served>>

\* Time passes.
Tick ==
    /\ now < MaxTime
    /\ ~Rejecting
    /\ now' = now + 1
    /\ UNCHANGED <<proc, exitCode, initError, clientKeyspace, db, issued, inflight, accepted, served>>

\* ------------------------------------------------------------ route handlers
ListMovies == "GET /api/movies"
RegisterMovie == "POST /api/movies"
ListReviews == "GET /api/movies/:movie_id/reviews"
RecordReview == "POST /api/movies/:movie_id/reviews"

\* if (!title), line 254.
PostMoviesInvalid(title) == Falsy(title)

\* if (!reviewer || rating === undefined), line 294.
\* (PostReviewsInvalidNoRatingCheck: if (!reviewer);
\*  PostReviewsInvalidFalsyRating: if (!reviewer || !rating).)
PostReviewsInvalidNoRatingCheck(reviewer, rating) == Falsy(reviewer)
PostReviewsInvalidFalsyRating(reviewer, rating) == Falsy(reviewer) \/ Falsy(rating)
PostReviewsInvalid(reviewer, rating) == Falsy(reviewer) \/ rating = Undefined

\* The bodies of the 400 and 500 answers, lines 246, 255, 268, 284, 295, 316.
ValidationBody(op) ==
    IF op = RegisterMovie THEN "O campo title e obrigatorio"
    ELSE "Campos reviewer e rating sao obrigatorios"
FailureBody(s) ==
    CASE s.op = ListMovies -> "Erro ao buscar filmes"
      [] s.op = RegisterMovie -> "Erro ao adicionar filme"
      [] s.op = ListReviews -> "Erro ao buscar avaliacoes"
      [] s.op = RecordReview -> "Erro ao enviar avaliacao"

\* res.json(...) answers 200, res.status(201).json(...) answers 201.
SuccessStatus(op) == IF op \in {RegisterMovie, RecordReview} THEN 201 ELSE 200

\* The answer of a handler that is past its await, or that validation
\* stopped: res.status(400) (lines 255, 295), res.json / res.status(201).json
\* (lines 243, 264, 280, 306-312), res.status(500) in the catch blocks.  The
\* fields of a success body are those of the request (id, title, rows, ...).
Response(s) ==
    IF s.pc = "rejected" THEN [status |-> 400, error |-> ValidationBody(s.op)]
    ELSE IF s.err = "" THEN [status |-> SuccessStatus(s.op), error |-> ""]
    ELSE [status |-> 500, error |-> FailureBody(s)]

\* A handler that has called dbClient.execute and awaits it.
Awaiting(op, movie_id, text, rating, timestamp, id, ratingValue) ==
    [NoRequest EXCEPT !.op = op, !.pc = "awaiting", !.movie_id = movie_id, !.text = text,
                      !.rating = rating, !.timestamp = timestamp, !.id = id,
                      !.ratingValue = ratingValue, !.ops = 1]

\* A handler that returned res.status(400) before calling dbClient.execute.
Rejected(op, movie_id, text, rating) ==
    [NoRequest EXCEPT !.op = op, !.pc = "rejected", !.movie_id = movie_id, !.text = text,
                      !.rating = rating]

Accepting == proc = "listening" /\ served < MaxRequests /\ ~Rejecting
Start(r) == inflight' = inflight (+) SetToBag({r}) /\ served' = served + 1
Step(r, r2) == inflight' = (inflight (-) SetToBag({r})) (+) SetToBag({r2})

\* server.get('/api/movies'), lines 239-242.
GetMovies ==
    /\ Accepting
    /\ Start(Awaiting(ListMovies, 0, Undefined, Undefined, 0, 0, Undefined))
    /\ UNCHANGED <<proc, exitCode, initError, clientKeyspace, db, now, issued, accepted>>

\* server.post('/api/movies'), lines 251-261.
PostMovies(title) ==
    /\ Accepting
    /\ IF PostMoviesInvalid(title)
       THEN /\ Start(Rejected(RegisterMovie, 0, title, Undefined))
            /\ UNCHANGED issued
       ELSE \E movieId \in Uuids \ issued :
            /\ issued' = issued \cup {movieId}
            /\ Start(Awaiting(RegisterMovie, 0, title, Undefined, 0, movieId, Undefined))
    /\ UNCHANGED <<proc, exitCode, initError, clientKeyspace, db, now, accepted>>

\* server.get('/api/movies/:movie_id/reviews'), lines 273-278.
GetReviews(movie_id) ==
    /\ Accepting
    /\ Start(Awaiting(ListReviews, movie_id, Undefined, Undefined, 0, 0, Undefined))
    /\ UNCHANGED <<proc, exitCode, initError, clientKeyspace, db, now, issued, accepted>>

\* server.post('/api/movies/:movie_id/reviews'), lines 289-304.
PostReviews(movie_id, reviewer, rating) ==
    /\ Accepting
    /\ IF PostReviewsInvalid(reviewer, rating)
       THEN /\ Start(Rejected(RecordReview, movie_id, reviewer, rating))
            /\ UNCHANGED issued
       ELSE \E reviewId \in Uuids \ issued :
            /\ issued' = issued \cup {reviewId}
            /\ Start(Awaiting(RecordReview, movie_id, reviewer, rating, now, reviewId,
                              parseInt(rating)))
    /\ UNCHANGED <<proc, exitCode, initError, clientKeyspace, db, now, accepted>>

\* The error the statement of a handler raises by itself, "" if none: its
\* table is missing, or a parameter does not encode to its column.
\* (StatementErrorUnknownMovie: the insert also requires a registered movie.)
StatementErrorUnknownMovie(s) ==
    IF (IF s.op \in {ListMovies, RegisterMovie} THEN MoviesTable ELSE ReviewsTable) \notin tables
    THEN "InvalidQueryError"
    ELSE IF s.op = RecordReview /\ ~(\E mv \in movies : mv.id = s.movie_id)
    THEN "InvalidQueryError"
    ELSE IF s.op = RecordReview THEN EncodeIntError(s.ratingValue)
    ELSE ""
StatementError(s) ==
    IF (IF s.op \in {ListMovies, RegisterMovie} THEN MoviesTable ELSE ReviewsTable) \notin tables
    THEN "InvalidQueryError"
    ELSE IF s.op = RecordReview THEN EncodeIntError(s.ratingValue)
    ELSE ""

\* The row of line 304.
\* (ReviewRowStampedAtInsert: the time is read when the insert runs.)
ReviewRowStampedAtInsert(s) ==
    [movie_id |-> s.movie_id, timestamp |-> now, review_id |-> s.id,
     reviewer |-> s.text.str, rating |-> s.ratingValue]
ReviewRow(s) ==
    [movie_id |-> s.movie_id, timestamp |-> s.timestamp, review_id |-> s.id,
     reviewer |-> s.text.str, rating |-> s.ratingValue]

\* dbClient.execute resolves (lines 242, 261, 278, 304): the engine has run
\* the statement.
Execute(s) ==
    /\ ~Rejecting
    /\ s.pc = "awaiting"
    /\ StatementError(s) = ""
    /\ CASE s.op = ListMovies ->
                /\ Step(s, [s EXCEPT !.pc = "resumed", !.movies = movies])
                /\ UNCHANGED <<movies, reviews_by_movie, accepted>>
         [] s.op = RegisterMovie ->
                /\ movies' = InsertMovie(movies, [id |-> s.id, title |-> s.text.str])
                /\ Step(s, [s EXCEPT !.pc = "resumed"])
                /\ UNCHANGED <<reviews_by_movie, accepted>>
         [] s.op = ListReviews ->
                /\ Step(s, [s EXCEPT !.pc = "resumed",
                                     !.rows = SelectReviews(reviews_by_movie[s.movie_id]),
                                     !.seen = accepted[s.movie_id]])
                /\ UNCHANGED <<movies, reviews_by_movie, accepted>>
         [] s.op = RecordReview ->
                /\ reviews_by_movie' =
                     [reviews_by_movie EXCEPT ![s.movie_id] = InsertReview(@, ReviewRow(s))]
                /\ accepted' = [accepted EXCEPT ![s.movie_id] = @ + 1]
                /\ Step(s, [s EXCEPT !.pc = "resumed", !.seen = accepted[s.movie_id] + 1])
                /\ UNCHANGED movies
    /\ UNCHANGED <<proc, exitCode, initError, clientKeyspace, keyspaceExists, tables, now,
                   issued, served>>

\* The handler after dbClient.execute rejected with e: control is in the catch
\* block (lines 244, 266, 282, 314), which answers and does nothing else.
\* (AfterExecuteErrorRetry: the handler calls dbClient.execute once more.)
AfterExecuteErrorRetry(s, e) ==
    IF s.ops < 2 THEN [s EXCEPT !.ops = s.ops + 1] ELSE [s EXCEPT !.pc = "resumed", !.err = e]
AfterExecuteError(s, e) == [s EXCEPT !.pc = "resumed", !.err = e]

\* dbClient.execute rejects: nothing is written.
ExecuteFail(s) ==
    /\ ~Rejecting
    /\ s.pc = "awaiting"
    /\ \E e \in ExecuteErrors \cup ({StatementError(s)} \ {""}) :
            Step(s, AfterExecuteError(s, e))
    /\ UNCHANGED <<proc, exitCode, initError, clientKeyspace, db, now, issued, accepted, served>>

\* The answer Response(s) is sent and the request is over.
Respond(s) ==
    /\ s.pc = "rejected" \/ (s.pc = "resumed" /\ ~Rejecting)
    /\ inflight' = inflight (-) SetToBag({s})
    /\ UNCHANGED <<proc, exitCode, initError, clientKeyspace, db, now, issued, accepted, served>>

Next ==
    \/ Connect
    \/ CreateKeyspace
    \/ CreateMoviesTable
    \/ CreateReviewsTable
    \/ Listen
    \/ Restart
    \/ Tick
    \/ GetMovies
    \/ \E title \in Titles : PostMovies(title)
    \/ \E movie_id \in MovieIdParams : GetReviews(movie_id)
    \/ \E movie_id \in MovieIdParams, reviewer \in Reviewers, rating \in Ratings :
            PostReviews(movie_id, reviewer, rating)
    \/ \E s \in Requests : Execute(s)
    \/ \E s \in Requests : ExecuteFail(s)
    \/ \E s \in Requests : Respond(s)

Spec == Init /\ [][Next]_vars

\* The same server when its clients only record reviews, with ratings from
\* the whole integer range.
NextRatings ==
    \/ Connect
    \/ CreateKeyspace
    \/ CreateMoviesTable
    \/ CreateReviewsTable
    \/ Listen
    \/ \E movie_id \in MovieIdParams, rating \in WideRatings :
            PostReviews(movie_id, Str("alice"), rating)
    \/ \E s \in Requests : Execute(s)
    \/ \E s \in Requests : ExecuteFail(s)
    \/ \E s \in Requests : Respond(s)

SpecRatings == Init /\ [][NextRatings]_vars

\* ------------------------------------------------------------------ claims
Answered(s, op) == s.op = op /\ s.pc = "resumed" /\ s.err = ""
Partition(m) == reviews_by_movie[m]
HasRow(m, id) == \E k \in 1..Len(Partition(m)) : Partition(m)[k].review_id = id
RowOf(m, id) == Partition(m)[CHOOSE k \in 1..Len(Partition(m)) : Partition(m)[k].review_id = id]
IndexOf(m, id) == CHOOSE k \in 1..Len(Partition(m)) : Partition(m)[k].review_id = id

DistinctRows ==
    /\ \A m \in MovieIdParams :
            /\ Len(Partition(m)) = accepted[m]
            /\ \A j, k \in 1..Len(Partition(m)) :
                    j # k =>
                        <<Partition(m)[j].movie_id, Partition(m)[j].timestamp,
                          Partition(m)[j].review_id>>
                        # <<Partition(m)[k].movie_id, Partition(m)[k].timestamp,
                            Partition(m)[k].review_id>>
    /\ \A s \in Requests :
            /\ Answered(s, RecordReview) =>
                    /\ HasRow(s.movie_id, s.id)
                    /\ RowOf(s.movie_id, s.id).timestamp = s.timestamp
                    /\ RowOf(s.movie_id, s.id).reviewer = s.text.str
                    /\ RowOf(s.movie_id, s.id).rating = s.ratingValue
            /\ Answered(s, ListReviews) => Len(s.rows) = s.seen

\* Two reviews recorded for one movie in the same millisecond, and a list
\* that returned both.
DistinctRowsWitness ==
    \E s \in Requests :
        /\ Answered(s, ListReviews)
        /\ s.seen = 2
        /\ Len(s.rows) = 2
        /\ s.rows[1].timestamp = s.rows[2].timestamp

\* C3: a registerMovie with an empty or missing title, and a recordReview
\* with an empty or missing reviewer or an absent rating, is answered 400
\* without a call of dbClient.execute, and no row with such a title or
\* reviewer is in either table.
ValidationBeforeStorage ==
    /\ \A s \in Requests :
            (\/ s.op = RegisterMovie /\ s.text \in {Undefined, Str("")}
             \/ s.op = RecordReview /\ (s.text \in {Undefined, Str("")} \/ s.rating = Undefined))
            => /\ s.pc = "rejected"
               /\ s.ops = 0
               /\ Response(s).status = 400
               /\ s.id = 0
    /\ \A r \in movies : r.title # ""
    /\ \A m \in MovieIdParams : \A k \in 1..Len(Partition(m)) :
            Partition(m)[k].reviewer # "" /\ Partition(m)[k].rating.kind = "number"
    /\ Cardinality(movies) + Len(Partition(1)) <= Cardinality(issued)

\* A recordReview with a reviewer and no rating is rejected while the
\* tables hold one movie and one review, no request of which is in flight.
ValidationBeforeStorageWitness ==
    /\ \E s \in Requests :
            s.op = RecordReview /\ s.pc = "rejected" /\ s.text = Str("alice")
            /\ s.rating = Undefined
    /\ BagCardinality(inflight) = 1
    /\ Cardinality(movies) = 1
    /\ Len(Partition(1)) = 1

\* C4: the server listens, and requests are handled, only when connect, the
\* keyspace and the two tables have succeeded in this order; a failed step
\* ends the process with exit status 1 and it never listens.
StartupOrder ==
    /\ proc \in {"movies", "reviews", "ready", "listening"} =>
            keyspaceExists /\ clientKeyspace = DATABASE_KEYSPACE
    /\ proc \in {"reviews", "ready", "listening"} => MoviesTable \in tables
    /\ proc \in {"ready", "listening"} => ReviewsTable \in tables
    /\ proc = "listening" => initError = "" /\ exitCode = -1
    /\ initError # "" => proc = "exited"
    /\ proc = "exited" => exitCode = 1 /\ initError # ""
    /\ inflight # EmptyBag => proc = "listening"

\* The process exited with status 1 on a schema that has the keyspace and
\* the movies table and not the reviews table.
StartupOrderWitness ==
    /\ proc = "exited"
    /\ exitCode = 1
    /\ keyspaceExists
    /\ tables = {MoviesTable}

\* C5: of two recordReview calls in flight together whose inserts the engine
\* has run, in either order, both rows are in the partition under the
\* created_at their own handler assigned, the one with the later created_at
\* first.
ConcurrentReviews ==
    \A s1, s2 \in Requests :
        (/\ Answered(s1, RecordReview) /\ Answered(s2, RecordReview)
         /\ s1.movie_id = s2.movie_id)
        => /\ HasRow(s1.movie_id, s1.id)
           /\ HasRow(s2.movie_id, s2.id)
           /\ RowOf(s1.movie_id, s1.id).timestamp = s1.timestamp
           /\ RowOf(s2.movie_id, s2.id).timestamp = s2.timestamp
           /\ s1.timestamp > s2.timestamp
                => IndexOf(s1.movie_id, s1.id) < IndexOf(s2.movie_id, s2.id)

\* Two recordReview calls in flight, the one with the earlier created_at
\* inserted last.
ConcurrentReviewsWitness ==
    \E s1, s2 \in Requests :
        /\ Answered(s1, RecordReview) /\ Answered(s2, RecordReview)
        /\ s1.timestamp < s2.timestamp
        /\ s1.seen > s2.seen

\* C6: no step removes a row of movies or of reviews_by_movie or changes
\* one of its fields, and a step adds at most one row to the two tables.
AppendOnly ==
    [][/\ movies \subseteq movies'
       /\ \A m \in MovieIdParams : \A k \in 1..Len(Partition(m)) :
            \E j \in 1..Len(reviews_by_movie'[m]) : reviews_by_movie'[m][j] = Partition(m)[k]
       /\ Cardinality(movies') + Len(reviews_by_movie'[1])
            <= Cardinality(movies) + Len(Partition(1)) + 1]_vars

\* Two movies registered under one title and a review, all three kept.
AppendOnlyWitness ==
    /\ \E a, b \in movies : a.id # b.id /\ a.title = b.title
    /\ Len(Partition(1)) = 1
    /\ inflight = EmptyBag

\* C7: a recordReview fails only for a failure of the engine or a rating
\* that does not encode, whether or not a movie is registered under its
\* movie_id; once acknowledged its row is in the partition, and a list that
\* came after it returns it.
OrphanTolerance ==
    \A s \in Requests :
        /\ s.op = RecordReview /\ s.pc = "awaiting" /\ EncodeIntError(s.ratingValue) = ""
                => StatementError(s) = ""
        /\ s.op = RecordReview /\ s.pc = "resumed" /\ s.err # ""
                => s.err \in ExecuteErrors \/ s.err = EncodeIntError(s.ratingValue)
        /\ Answered(s, RecordReview) =>
                /\ HasRow(s.movie_id, s.id)
                /\ \A l \in Requests :
                        (Answered(l, ListReviews) /\ l.movie_id = s.movie_id /\ l.seen >= s.seen)
                        => \E k \in 1..Len(l.rows) :
                                /\ l.rows[k].timestamp = s.timestamp
                                /\ l.rows[k].reviewer = s.text.str
                                /\ l.rows[k].rating = s.ratingValue

\* A review recorded for a movie_id no movie is registered under, while
\* another movie is registered, and a later list that returned it.
OrphanToleranceWitness ==
    \E s, l \in Requests :
        /\ Answered(s, RecordReview)
        /\ movies # {}
        /\ \A mv \in movies : mv.id # s.movie_id
        /\ Answered(l, ListReviews) /\ l.movie_id = s.movie_id /\ l.seen >= s.seen
        /\ Len(l.rows) = 1

\* C8: a request calls dbClient.execute at most once, exactly once when it
\* passed validation; after the call failed the handler answers 500 with
\* its fixed message, which is not the error of the engine.
NoRetryOpaqueFailure ==
    \A s \in Requests :
        /\ s.ops <= 1
        /\ s.pc \in {"awaiting", "resumed"} <=> s.ops = 1
        /\ s.pc = "rejected" <=> s.ops = 0
        /\ s.pc = "resumed" /\ s.err # "" =>
                /\ Response(s).status = 500
                /\ Response(s).error \in
                        {"Erro ao buscar filmes", "Erro ao adicionar filme",
                         "Erro ao buscar avaliacoes", "Erro ao enviar avaliacao"}
                /\ Response(s).error # s.err

\* A recordReview and a list whose statements both timed out.
NoRetryOpaqueFailureWitness ==
    /\ \E s \in Requests :
            s.op = RecordReview /\ s.pc = "resumed" /\ s.err = "OperationTimedOutError"
    /\ \E s \in Requests :
            s.op = ListReviews /\ s.pc = "resumed" /\ s.err = "OperationTimedOutError"

\* C9: when the keyspace and both tables exist as initializeDatabase runs,
\* none of its steps changes the keyspace, the tables or their rows, and
\* none is rejected for what exists already.
SchemaComplete == keyspaceExists /\ tables = {MoviesTable, ReviewsTable}
IdempotentBootstrap ==
    [][(proc \in {"connect", "keyspace", "movies", "reviews"} /\ SchemaComplete)
        => (UNCHANGED db /\ initError' # "AlreadyExists")]_vars

\* initializeDatabase has run to its end on a database that held a movie
\* and a review before.
IdempotentBootstrapWitness ==
    /\ proc = "ready"
    /\ movies # {}
    /\ Partition(1) # <<>>

\* C10 as amended: a recordReview with a non-empty reviewer and an integer
\* rating of the 32-bit signed range, negative and zero included, passes
\* validation, fails only with the engine, and answers and stores the
\* rating as submitted.
IsIntegerRating(s) == s.op = RecordReview /\ ~Falsy(s.text) /\ s.rating.kind = "number"
SubmittedRatingKept(s) ==
    /\ s.pc # "rejected"
    /\ s.ratingValue = s.rating
    /\ s.pc = "resumed" => s.err \in ExecuteErrors \cup {""}
    /\ Answered(s, RecordReview) =>
            HasRow(s.movie_id, s.id) /\ RowOf(s.movie_id, s.id).rating = s.rating
Int32RatingAccepted ==
    \A s \in Requests : (IsIntegerRating(s) /\ InInt32(s.rating)) => SubmittedRatingKept(s)

\* C10 as stated: the same of every integer rating.
AnyIntegerRatingAccepted ==
    \A s \in Requests : IsIntegerRating(s) => SubmittedRatingKept(s)

\* A review of rating -5 acknowledged and stored beside one of rating 0.
Int32RatingAcceptedWitness ==
    /\ \E s \in Requests :
            /\ Answered(s, RecordReview)
            /\ s.rating = Num(TRUE, <<5>>)
            /\ RowOf(s.movie_id, s.id).rating = Num(TRUE, <<5>>)
    /\ \E k \in 1..Len(Partition(1)) : Partition(1)[k].rating = Num(FALSE, <<0>>)
====
